---- MODULE Spec2Model ----
(***************************************************************************)
(* Model of streamlit_app.py: the A/B significance calculation.            *)
(*                                                                         *)
(* Python floats are modelled by exact values: a rate is a reduced         *)
(* fraction <<n, d>> with d > 0, a square root is kept by its radicand,    *)
(* and the z-score is kept as the pair (numerator squared, radicand) with  *)
(* its sign.  IEEE NaN and infinities are explicit kinds.  Probabilities   *)
(* are integers in units of 1/PUnit.                                       *)
(***************************************************************************)
EXTENDS Integers, Sequences, FiniteSets, TLC

\* ------------------------------------------------------------------ bounds
\* Script runs in one session, the first run included.
MaxRuns == 5

\* Defaults of the four st.number_input widgets.
DefaultPopA == 228
DefaultEvtA == 23
DefaultPopB == 254
DefaultEvtB == 41

\* One unit of probability: 1.0 is PUnit, alpha = 0.05 is 500.
PUnit == 100 * 100

\* Values of the "alpha" slider (0.01 .. 0.20, default 0.05) that are explored.
AlphaDefault == 500
AlphaSet == {AlphaDefault, 1000}

\* Options of the "hypothesis" radio; index 0 is the default.
HypothesisSet == {"Two-sided", "One-sided"}

\* A number_input without min_value/max_value accepts any integer; these are
\* the values typed besides the widget's default.
CountSet(default) == {-1, 0, 1, 2} \cup {default}

\* ------------------------------------------------------- exact arithmetic
Abs(x) == IF x < 0 THEN -x ELSE x

Sign(x) == IF x < 0 THEN -1 ELSE IF x = 0 THEN 0 ELSE 1

RECURSIVE GCD(_, _)
GCD(a, b) == IF b = 0 THEN a ELSE GCD(b, a % b)

\* The fraction n/d (d # 0) in lowest terms with a positive denominator.
Rat(n, d) ==
    LET g == GCD(Abs(n), Abs(d))
        s == IF d < 0 THEN -1 ELSE 1
    IN  <<s * (n \div g), Abs(d) \div g>>

RatInt(n) == <<n, 1>>

RatAdd(x, y) ==
    LET g == GCD(x[2], y[2])
    IN  Rat(x[1] * (y[2] \div g) + y[1] * (x[2] \div g), (x[2] \div g) * y[2])

RatNeg(x) == <<-x[1], x[2]>>

RatSub(x, y) == RatAdd(x, RatNeg(y))

RatMul(x, y) ==
    LET g1 == GCD(Abs(x[1]), y[2])
        g2 == GCD(Abs(y[1]), x[2])
    IN  Rat((x[1] \div g1) * (y[1] \div g2), (x[2] \div g2) * (y[2] \div g1))

\* x / y for y # 0.
RatDiv(x, y) == RatMul(x, Rat(y[2], y[1]))

RatSign(x) == Sign(x[1])

RatLess(x, y) == x[1] * y[2] < y[1] * x[2]

\* Natural numbers beyond the 32-bit range: little-endian digits in base BigBase.
BigBase == 10 * 100

RECURSIVE ToBig(_)
ToBig(n) == IF n = 0 THEN <<>> ELSE <<n % BigBase>> \o ToBig(n \div BigBase)

RECURSIVE ConvSum(_, _, _, _)
ConvSum(a, b, k, i) ==
    IF i > Len(a) THEN 0
    ELSE (IF k + 1 - i >= 1 /\ k + 1 - i <= Len(b) THEN a[i] * b[k + 1 - i] ELSE 0)
         + ConvSum(a, b, k, i + 1)

RECURSIVE Carry(_, _, _)
Carry(raw, i, c) ==
    IF i > Len(raw)
    THEN ToBig(c)
    ELSE <<(raw[i] + c) % BigBase>> \o Carry(raw, i + 1, (raw[i] + c) \div BigBase)

BigMul(a, b) ==
    IF a = <<>> \/ b = <<>> THEN <<>>
    ELSE Carry([k \in 1 .. (Len(a) + Len(b) - 1) |-> ConvSum(a, b, k, 1)], 1, 0)

RECURSIVE BigProd(_)
BigProd(factors) ==
    IF factors = <<>> THEN ToBig(1)
    ELSE BigMul(ToBig(Head(factors)), BigProd(Tail(factors)))

RECURSIVE BigCmpFrom(_, _, _)
BigCmpFrom(a, b, i) ==
    IF i = 0 THEN 0
    ELSE IF a[i] < b[i] THEN -1
    ELSE IF a[i] > b[i] THEN 1
    ELSE BigCmpFrom(a, b, i - 1)

\* -1, 0 or 1 as a < b, a = b or a > b.
BigCmp(a, b) ==
    IF Len(a) < Len(b) THEN -1
    ELSE IF Len(a) > Len(b) THEN 1
    ELSE BigCmpFrom(a, b, Len(a))

\* ----------------------------------------------------------- float values
\* A function either returns a value or raises.
Ok(v) == [exc |-> "none", val |-> v]

Raise(e) == [exc |-> e, val |-> 0]

\* np.sqrt(x): the root is kept by its radicand; a negative radicand gives nan.
NaNRoot == [kind |-> "nan", sq |-> RatInt(0)]

np_sqrt(x) == IF RatSign(x) < 0 THEN NaNRoot ELSE [kind |-> "sqrt", sq |-> x]

\* z-score values: sgn * sqrt(num2 / rad) when finite.
ZNaN == [kind |-> "nan", sgn |-> 0, num2 |-> RatInt(0), rad |-> RatInt(1)]

ZInf(s) == [kind |-> "inf", sgn |-> s, num2 |-> RatInt(0), rad |-> RatInt(1)]

ZFinite(d, v) == [kind |-> "finite", sgn |-> RatSign(d), num2 |-> RatMul(d, d), rad |-> v]

ZAbs(z) == [z EXCEPT !.sgn = Abs(z.sgn)]

ZNegate(z) == [z EXCEPT !.sgn = -z.sgn]

\* Compares |z1| with |z2| for finite z1, z2: -1, 0 or 1.
ZCmpAbs(z1, z2) ==
    BigCmp(BigProd(<<z1.num2[1], z1.rad[2], z2.num2[2], z2.rad[1]>>),
           BigProd(<<z2.num2[1], z2.rad[2], z1.num2[2], z1.rad[1]>>))

\* z1 < z2 for finite z1, z2.
ZLess(z1, z2) ==
    IF z1.sgn # z2.sgn THEN z1.sgn < z2.sgn
    ELSE IF z1.sgn = 0 THEN FALSE
    ELSE IF z1.sgn > 0 THEN ZCmpAbs(z1, z2) < 0
    ELSE ZCmpAbs(z1, z2) > 0

ZEqual(z1, z2) ==
    /\ z1.kind = z2.kind
    /\ z1.sgn = z2.sgn
    /\ z1.kind = "finite" => ZCmpAbs(z1, z2) = 0

\* z^2 = ZSquareNum(z) / ZSquareDen(z) for finite z, as naturals.
ZSquareNum(z) == BigMul(ToBig(z.num2[1]), ToBig(z.rad[2]))

ZSquareDen(z) == BigMul(ToBig(z.num2[2]), ToBig(z.rad[1]))

\* -1, 0 or 1 as |z| is below, at or above k / 1000, for z^2 = num / den.
AbsCmp(num, den, k) ==
    BigCmp(BigMul(num, ToBig(1000 * 1000)), BigMul(den, ToBig(k * k)))

\* ------------------------------------------------- the statistics functions
\* int(x) of a value that is already a Python int (number_input with an int
\* default returns int).
int(x) == x

\* float(x) of a Python int.
float(x) == RatInt(x)

\* int / int raises ZeroDivisionError on a zero divisor.
conversion_rate(conversions, visitors) ==
    IF visitors = 0 THEN Raise("ZeroDivisionError")
    ELSE Ok(RatMul(Rat(conversions, visitors), RatInt(100)))

\* lift with its operands exchanged.
lift_exchanged(cra, crb) == RatSub(cra, crb)

lift(cra, crb) == RatSub(crb, cra)

\* visitors is a float here; float / 0.0 raises ZeroDivisionError as well.
std_err(cr, visitors) ==
    IF RatSign(visitors) = 0 THEN Raise("ZeroDivisionError")
    ELSE LET c == RatDiv(cr, RatInt(100))
         IN  Ok(np_sqrt(RatDiv(RatMul(c, RatSub(RatInt(1), c)), visitors)))

\* sqrt(sea^2 + seb^2); the sum is kept by its two terms (for the default
\* inputs its denominator does not fit 32 bits).  nan in, nan out.
std_err_diff(sea, seb) ==
    IF sea.kind = "nan" \/ seb.kind = "nan"
    THEN [kind |-> "nan", a |-> RatInt(0), b |-> RatInt(0)]
    ELSE [kind |-> "hypot", a |-> sea.sq, b |-> seb.sq]

\* float / np.float64: division by zero gives nan or +-inf, never an exception.
np_divide(d, root) ==
    IF root.kind = "nan" THEN ZNaN
    ELSE IF RatSign(root.sq) = 0
         THEN (IF RatSign(d) = 0 THEN ZNaN ELSE ZInf(RatSign(d)))
         ELSE ZFinite(d, root.sq)

\* z_score with the variance term 1 / (visitors_a + visitors_b).
z_score_one_sample(conversions_a, conversions_b, visitors_a, visitors_b) ==
    IF visitors_a + visitors_b = 0 \/ visitors_a = 0 \/ visitors_b = 0
    THEN Raise("ZeroDivisionError")
    ELSE LET cr  == Rat(conversions_a + conversions_b, visitors_a + visitors_b)
             cra == Rat(conversions_a, visitors_a)
             crb == Rat(conversions_b, visitors_b)
             rad == RatMul(RatMul(cr, RatSub(RatInt(1), cr)),
                           Rat(1, visitors_a + visitors_b))
         IN  Ok(np_divide(RatSub(crb, cra), np_sqrt(rad)))

\* z_score with the numerator cra - crb.
z_score_exchanged(conversions_a, conversions_b, visitors_a, visitors_b) ==
    IF visitors_a + visitors_b = 0 \/ visitors_a = 0 \/ visitors_b = 0
    THEN Raise("ZeroDivisionError")
    ELSE LET cr  == Rat(conversions_a + conversions_b, visitors_a + visitors_b)
             cra == Rat(conversions_a, visitors_a)
             crb == Rat(conversions_b, visitors_b)
             rad == RatMul(RatMul(cr, RatSub(RatInt(1), cr)),
                           RatAdd(Rat(1, visitors_a), Rat(1, visitors_b)))
         IN  Ok(np_divide(RatSub(cra, crb), np_sqrt(rad)))

z_score(conversions_a, conversions_b, visitors_a, visitors_b) ==
    IF visitors_a + visitors_b = 0 \/ visitors_a = 0 \/ visitors_b = 0
    THEN Raise("ZeroDivisionError")
    ELSE LET cr  == Rat(conversions_a + conversions_b, visitors_a + visitors_b)
             cra == Rat(conversions_a, visitors_a)
             crb == Rat(conversions_b, visitors_b)
             rad == RatMul(RatMul(cr, RatSub(RatInt(1), cr)),
                           RatAdd(Rat(1, visitors_a), Rat(1, visitors_b)))
         IN  Ok(np_divide(RatSub(crb, cra), np_sqrt(rad)))

\* scipy's norm().sf, tabulated by decreasing tail probability:
\* <<t, z>> with sf(z) = t, t in units of 1/PUnit and z in units of 1/1000.
\* Every slider value of alpha and every alpha/2 is tabulated.
SfTable ==
    << <<5000, 0>>, <<4500, 126>>, <<4000, 253>>, <<3500, 385>>,
       <<3000, 524>>, <<2500, 674>>, <<2000, 842>>, <<1900, 878>>,
       <<1800, 915>>, <<1700, 954>>, <<1600, 994>>, <<1500, 1036>>,
       <<1400, 1080>>, <<1300, 1126>>, <<1200, 1175>>, <<1100, 1227>>,
       <<1000, 1282>>, <<950, 1311>>, <<900, 1341>>, <<850, 1372>>,
       <<800, 1405>>, <<750, 1440>>, <<700, 1476>>, <<650, 1514>>,
       <<600, 1555>>, <<550, 1598>>, <<500, 1645>>, <<450, 1695>>,
       <<400, 1751>>, <<350, 1812>>, <<300, 1881>>, <<250, 1960>>,
       <<200, 2054>>, <<150, 2170>>, <<100, 2326>>, <<50, 2576>> >>

\* The first index in lo .. hi whose z is at least |z| (hi + 1 when none is).
RECURSIVE SfSearch(_, _, _, _)
SfSearch(num, den, lo, hi) ==
    IF lo > hi THEN lo
    ELSE LET mid == (lo + hi) \div 2
         IN  IF AbsCmp(num, den, SfTable[mid][2]) <= 0
             THEN SfSearch(num, den, lo, mid - 1)
             ELSE SfSearch(num, den, mid + 1, hi)

\* The tail at index i of the table when |z| is the tabulated z; else |z| lies
\* strictly between two tabulated z (or past the last) and sf(|z|) strictly
\* between their tails: the middle of the two is taken.
SfBetween(num, den, i) ==
    IF i > Len(SfTable) THEN SfTable[Len(SfTable)][1] \div 2
    ELSE IF AbsCmp(num, den, SfTable[i][2]) = 0 THEN SfTable[i][1]
    ELSE (SfTable[i][1] + SfTable[i - 1][1]) \div 2

\* sf(|z|) for finite z.
SfUpper(z) ==
    SfBetween(ZSquareNum(z), ZSquareDen(z),
              SfSearch(ZSquareNum(z), ZSquareDen(z), 1, Len(SfTable)))

\* norm().sf(z) for z that is not nan: sf(-z) = 1 - sf(z), sf(inf) = 0.
norm_sf(z) ==
    IF z.kind = "inf" THEN (IF z.sgn > 0 THEN 0 ELSE PUnit)
    ELSE IF z.sgn >= 0 THEN SfUpper(z)
    ELSE PUnit - SfUpper(z)

\* p_value whose two-sided branch for z < 0 doubles sf(z) itself.
p_value_unmirrored(z, hypothesis) ==
    IF z.kind = "nan" THEN Raise("UnboundLocalError")
    ELSE IF hypothesis = "One-sided"
         THEN (IF z.sgn < 0 THEN Ok(PUnit - norm_sf(z)) ELSE Ok(norm_sf(z)))
         ELSE Ok(norm_sf(z) * 2)

\* p_value whose one-sided branch is the upper tail for every z.
p_value_upper_tail(z, hypothesis) ==
    IF z.kind = "nan" THEN Raise("UnboundLocalError")
    ELSE IF hypothesis = "One-sided"
         THEN Ok(norm_sf(z))
         ELSE (IF z.sgn < 0 THEN Ok((PUnit - norm_sf(z)) * 2) ELSE Ok(norm_sf(z) * 2))

\* Both z < 0 and z >= 0 are False for nan: the local p_value is never bound
\* and the return raises UnboundLocalError.
p_value(z, hypothesis) ==
    IF z.kind = "nan" THEN Raise("UnboundLocalError")
    ELSE IF hypothesis = "One-sided"
         THEN (IF z.sgn < 0 THEN Ok(PUnit - norm_sf(z)) ELSE Ok(norm_sf(z)))
         ELSE (IF z.sgn < 0 THEN Ok((PUnit - norm_sf(z)) * 2) ELSE Ok(norm_sf(z) * 2))

\* significance with the boundary p = alpha counted as significant.
significance_inclusive(alpha, p) == IF p <= alpha THEN "YES" ELSE "NO"

significance(alpha, p) == IF p < alpha THEN "YES" ELSE "NO"

\* --------------------------------------------------------- session state
\* st.session_state.<key> = v
SetKey(st, key, v) == (key :> v) @@ st

\* The frame of one invocation: the session state so far, the exception that
\* ended it ("none" while it runs) and the result fields it has assigned.
Begin(st) == [ss |-> st, exc |-> "none", written |-> {}]

\* st.session_state.<key> = <r>, where evaluating r returned or raised.
Assign(f, key, r) ==
    IF r.exc # "none" THEN [f EXCEPT !.exc = r.exc]
    ELSE [ss |-> SetKey(f.ss, key, r.val), exc |-> "none",
          written |-> f.written \cup {key}]

Line108(f, conversions_a, visitors_a) ==
    IF f.exc # "none" THEN f
    ELSE Assign(f, "cra", conversion_rate(int(conversions_a), int(visitors_a)))

Line109(f, conversions_b, visitors_b) ==
    IF f.exc # "none" THEN f
    ELSE Assign(f, "crb", conversion_rate(int(conversions_b), int(visitors_b)))

Line110(f) ==
    IF f.exc # "none" THEN f
    ELSE Assign(f, "diff", Ok(lift(f.ss.cra, f.ss.crb)))

Line111(f, visitors_a) ==
    IF f.exc # "none" THEN f
    ELSE Assign(f, "sea", std_err(f.ss.cra, float(visitors_a)))

Line112(f, visitors_b) ==
    IF f.exc # "none" THEN f
    ELSE Assign(f, "seb", std_err(f.ss.crb, float(visitors_b)))

Line113(f) ==
    IF f.exc # "none" THEN f
    ELSE Assign(f, "sed", Ok(std_err_diff(f.ss.sea, f.ss.seb)))

Line114(f, conversions_a, conversions_b, visitors_a, visitors_b) ==
    IF f.exc # "none" THEN f
    ELSE Assign(f, "z", z_score(conversions_a, conversions_b, visitors_a, visitors_b))

\* Not the parameter hypothesis: st.session_state.hypothesis.
Line117(f) ==
    IF f.exc # "none" THEN f
    ELSE Assign(f, "p", p_value(f.ss.z, f.ss.hypothesis))

\* Not the parameter alpha: st.session_state.alpha.
Line118(f) ==
    IF f.exc # "none" THEN f
    ELSE Assign(f, "significant", Ok(significance(f.ss.alpha, f.ss.p)))

\* The statements run in order; the first exception ends the invocation and
\* leaves in the session state what was assigned before it.  The parameters
\* hypothesis and alpha are never read.
calculate_significance(st, conversions_a, conversions_b, visitors_a, visitors_b, hypothesis, alpha) ==
    Line118(Line117(
        Line114(
            Line113(Line112(Line111(
                Line110(Line109(Line108(Begin(st), conversions_a, visitors_a),
                                conversions_b, visitors_b)),
                visitors_a), visitors_b)),
            conversions_a, conversions_b, visitors_a, visitors_b)))

\* ------------------------------------------------------------ the program
VARIABLES
    Pop_A, Evt_A, Pop_B, Evt_B,  \* values of the four number_input widgets
    ss,                          \* st.session_state
    call,                        \* arguments of the latest calculate_significance
    outcome,                     \* "none" or the exception that ended it
    written,                     \* the result fields it assigned
    runs                         \* script runs so far in this session

vars == <<Pop_A, Evt_A, Pop_B, Evt_B, ss, call, outcome, written, runs>>

Args(ca, cb, va, vb, h, a) ==
    [conversions_a |-> ca, conversions_b |-> cb, visitors_a |-> va,
     visitors_b |-> vb, hypothesis |-> h, alpha |-> a]

\* One call of calculate_significance on session state st.
Ended(f, c) == [ss |-> f.ss, call |-> c, outcome |-> f.exc, written |-> f.written]

Invoke(st, ca, cb, va, vb, h, a) ==
    Ended(calculate_significance(st, ca, cb, va, vb, h, a), Args(ca, cb, va, vb, h, a))

\* One run of the script: the widgets are read, then line 177 calls
\* calculate_significance with the session's own hypothesis and alpha.  An
\* exception ends the run; the session state keeps what was assigned.
RunScript(st, pa, ea, pb, eb) ==
    Invoke(st, ea, eb, pa, pb, st.hypothesis, st.alpha)

Becomes(r) ==
    /\ runs < MaxRuns
    /\ runs' = runs + 1
    /\ ss' = r.ss
    /\ call' = r.call
    /\ outcome' = r.outcome
    /\ written' = r.written

\* The session after the first run: the form widgets have registered their
\* defaults under their keys and the script has run on the default counts.
FirstRun ==
    RunScript([hypothesis |-> "Two-sided", alpha |-> AlphaDefault],
              DefaultPopA, DefaultEvtA, DefaultPopB, DefaultEvtB)

Starts(r) ==
    /\ ss = r.ss
    /\ call = r.call
    /\ outcome = r.outcome
    /\ written = r.written

Init ==
    /\ Pop_A = DefaultPopA
    /\ Evt_A = DefaultEvtA
    /\ Pop_B = DefaultPopB
    /\ Evt_B = DefaultEvtB
    /\ runs = 1
    /\ Starts(FirstRun)

\* Editing a number_input reruns the script with the new value.
ChangePopA ==
    \E v \in CountSet(DefaultPopA) \ {Pop_A} :
        /\ Pop_A' = v
        /\ UNCHANGED <<Evt_A, Pop_B, Evt_B>>
        /\ Becomes(RunScript(ss, v, Evt_A, Pop_B, Evt_B))

ChangeEvtA ==
    \E v \in CountSet(DefaultEvtA) \ {Evt_A} :
        /\ Evt_A' = v
        /\ UNCHANGED <<Pop_A, Pop_B, Evt_B>>
        /\ Becomes(RunScript(ss, Pop_A, v, Pop_B, Evt_B))

ChangePopB ==
    \E v \in CountSet(DefaultPopB) \ {Pop_B} :
        /\ Pop_B' = v
        /\ UNCHANGED <<Pop_A, Evt_A, Evt_B>>
        /\ Becomes(RunScript(ss, Pop_A, Evt_A, v, Evt_B))

ChangeEvtB ==
    \E v \in CountSet(DefaultEvtB) \ {Evt_B} :
        /\ Evt_B' = v
        /\ UNCHANGED <<Pop_A, Evt_A, Pop_B>>
        /\ Becomes(RunScript(ss, Pop_A, Evt_A, Pop_B, v))

\* Submitting the form stores the radio and slider values under their keys
\* and reruns the script.
SubmitForm ==
    \E h \in HypothesisSet, a \in AlphaSet :
        /\ UNCHANGED <<Pop_A, Evt_A, Pop_B, Evt_B>>
        /\ Becomes(RunScript(SetKey(SetKey(ss, "hypothesis", h), "alpha", a),
                             Pop_A, Evt_A, Pop_B, Evt_B))

Next == ChangePopA \/ ChangeEvtA \/ ChangePopB \/ ChangeEvtB \/ SubmitForm

Spec == Init /\ [][Next]_vars

\* ------------------------------------------------- the function on its own
\* calculate_significance called directly, as its signature allows: the caller
\* passes hypothesis and alpha of its own choice, whatever the session holds.
EngineCall ==
    \E cb \in CountSet(DefaultEvtB), h \in HypothesisSet, a \in AlphaSet :
        /\ UNCHANGED <<Pop_A, Evt_A, Pop_B, Evt_B>>
        /\ Becomes(Invoke(ss, Evt_A, cb, Pop_A, Pop_B, h, a))

\* The caller's session stores other form values.
SetSession ==
    \E h \in HypothesisSet, a \in AlphaSet :
        /\ ss' = SetKey(SetKey(ss, "hypothesis", h), "alpha", a)
        /\ UNCHANGED <<Pop_A, Evt_A, Pop_B, Evt_B, call, outcome, written, runs>>

EngineNext == EngineCall \/ SetSession

EngineSpec == Init /\ [][EngineNext]_vars

\* ------------------------------------------------------- input conditions
\* 0 <= events <= population and population > 0, for both groups.
ValidObs(c) ==
    /\ c.visitors_a > 0
    /\ c.visitors_b > 0
    /\ 0 <= c.conversions_a /\ c.conversions_a <= c.visitors_a
    /\ 0 <= c.conversions_b /\ c.conversions_b <= c.visitors_b

\* Valid observations whose pooled rate is exactly 0% or 100%.
Degenerate(c) ==
    /\ ValidObs(c)
    /\ \/ c.conversions_a + c.conversions_b = 0
       \/ c.conversions_a + c.conversions_b = c.visitors_a + c.visitors_b

\* What the error taxonomy calls invalid input.
InvalidInput(c) ==
    \/ ~ValidObs(c)
    \/ ~(0 < c.alpha /\ c.alpha < PUnit)
    \/ c.hypothesis \notin HypothesisSet

DefaultCounts(c) ==
    /\ c.conversions_a = DefaultEvtA
    /\ c.visitors_a = DefaultPopA
    /\ c.conversions_b = DefaultEvtB
    /\ c.visitors_b = DefaultPopB

\* -1, 0 or 1 as |z| is below, at or above k / 1000, for finite z.
ZCmpMilli(z, k) == AbsCmp(ZSquareNum(z), ZSquareDen(z), k)

\* ---------------------------------------------------------------- claims
\* C1: valid observations whose pooled rate is exactly 0% or 100% end the
\* calculation in DegenerateInputError, and no NaN or infinite z-score is
\* produced as a value.
C1_DegenerateInputError ==
    Degenerate(call) =>
        /\ outcome = "DegenerateInputError"
        /\ "z" \in written => ss.z.kind = "finite"

\* C2: invalid input (population <= 0, events < 0, events > population, alpha
\* outside (0,1), unknown hypothesis) is reported as InvalidInputError before
\* any arithmetic: nothing is computed or stored for it.
C2_InvalidInputError ==
    InvalidInput(call) =>
        /\ outcome = "InvalidInputError"
        /\ written = {}

\* C3: a failing invocation leaves none of the result fields it assigned
\* visible; the stored result never holds fields of a failed invocation.
C3_NoPartialResult ==
    outcome # "none" => \A f \in written : f \notin DOMAIN ss

\* C8: the p-value and the verdict of an invocation are those of the
\* hypothesis and alpha passed as arguments, whatever the session state holds.
C8_ConfigurationFromArguments ==
    outcome = "none" =>
        /\ ss.p = p_value(ss.z, call.hypothesis).val
        /\ ss.significant = significance(call.alpha, ss.p)

\* Probabilities a p-value can take: the tabulated tails, doubled or not.
PValues ==
    {0} \cup AlphaSet
        \cup {SfTable[i][1] : i \in 1 .. Len(SfTable)}
        \cup {2 * SfTable[i][1] : i \in 1 .. Len(SfTable)}

\* C4: the verdict is "YES" exactly when p < alpha, so p = alpha gives "NO";
\* in every completed calculation the stored verdict agrees with the stored
\* p-value and the alpha in force.
C4_StrictVerdict ==
    /\ \A p \in PValues, a \in AlphaSet : (significance(a, p) = "YES") <=> (p < a)
    /\ outcome = "none" => ((ss.significant = "YES") <=> (ss.p < ss.alpha))

\* A completed calculation whose verdict turned to "YES" when alpha was raised
\* above its p-value.
C4_Witness ==
    /\ outcome = "none"
    /\ AlphaDefault < ss.p
    /\ ss.p < ss.alpha
    /\ ss.significant = "YES"

\* C5: for every finite z the two-sided p-value is twice the upper tail of
\* |z|; at z = 0 it is 1 and the one-sided p-value is 1/2; p lies in [0,1].
C5_TwoSidedIsTwiceUpperTail ==
    (outcome = "none" /\ ss.z.kind = "finite") =>
        /\ p_value(ss.z, "Two-sided").val = 2 * p_value(ZAbs(ss.z), "One-sided").val
        /\ ss.hypothesis = "Two-sided" => ss.p = 2 * p_value(ZAbs(ss.z), "One-sided").val
        /\ ss.z.sgn = 0 =>
              /\ p_value(ss.z, "Two-sided").val = PUnit
              /\ 2 * p_value(ss.z, "One-sided").val = PUnit
        /\ ss.p \in 0 .. PUnit
        /\ p_value(ss.z, "Two-sided").val \in 0 .. PUnit
        /\ p_value(ss.z, "One-sided").val \in 0 .. PUnit

\* A completed two-sided calculation with a negative finite z-score.
C5_Witness ==
    /\ outcome = "none"
    /\ ss.z.kind = "finite"
    /\ ss.z.sgn < 0
    /\ ss.hypothesis = "Two-sided"
    /\ ss.p > 0

\* C6: on the default counts with the two-sided hypothesis the z-score is
\* positive and strictly between 1.645 and 1.960; the verdict is "NO" at
\* alpha = 0.05 and "YES" at alpha = 0.10.
C6_DefaultsBetweenCriticalValues ==
    (DefaultCounts(call) /\ call.hypothesis = "Two-sided") =>
        /\ outcome = "none"
        /\ ss.z.kind = "finite"
        /\ ss.z.sgn > 0
        /\ ZCmpMilli(ss.z, 1645) > 0
        /\ ZCmpMilli(ss.z, 1960) < 0
        /\ ss.alpha = 500 => ss.significant = "NO"
        /\ ss.alpha = 1000 => ss.significant = "YES"

\* The default counts, two-sided, after alpha was raised to 0.10.
C6_Witness ==
    /\ DefaultCounts(call)
    /\ call.hypothesis = "Two-sided"
    /\ ss.alpha = 1000
    /\ ss.significant = "YES"
    /\ runs > 1

\* The z-score with group B's events replaced by eb2.
ZWithEventsB(c, eb2) ==
    z_score(c.conversions_a, eb2, c.visitors_a, c.visitors_b).val

\* C7: with group A and popB fixed, a larger eventsB gives a strictly larger
\* rateB; and from rateB >= rateA, with non-zero pooled variance at both
\* counts, a z-score that is not negative grows strictly.
C7_MonotoneInEventsB ==
    ValidObs(call) =>
        \A eb2 \in (call.conversions_b + 1) .. call.visitors_b :
            /\ RatLess(ss.crb, conversion_rate(int(eb2), int(call.visitors_b)).val)
            /\ ( /\ ~RatLess(ss.crb, ss.cra)
                 /\ ss.z.kind = "finite"
                 /\ ZWithEventsB(call, eb2).kind = "finite" )
               => /\ ss.z.sgn >= 0
                  /\ ZWithEventsB(call, eb2).sgn > 0
                  /\ ZLess(ss.z, ZWithEventsB(call, eb2))

\* A completed calculation with rateB >= rateA, room for more events in B and
\* non-zero pooled variance at the next count.
C7_Witness ==
    /\ outcome = "none"
    /\ ValidObs(call)
    /\ ~RatLess(ss.crb, ss.cra)
    /\ ss.z.kind = "finite"
    /\ call.conversions_b + 1 < call.visitors_b
    /\ ZWithEventsB(call, call.conversions_b + 1).kind = "finite"
    /\ runs > 1

\* The calculation on the two groups exchanged.
Mirrored ==
    calculate_significance(ss, call.conversions_b, call.conversions_a,
                           call.visitors_b, call.visitors_a,
                           call.hypothesis, call.alpha)

\* C9: exchanging the groups negates the difference and the z-score and
\* leaves the p-value and the verdict unchanged; a one-sided p-value never
\* exceeds 1/2.
C9_ExchangeKeepsVerdict ==
    (outcome = "none" /\ ValidObs(call) /\ ~Degenerate(call)) =>
        /\ Mirrored.exc = "none"
        /\ Mirrored.ss.diff = RatNeg(ss.diff)
        /\ ZEqual(Mirrored.ss.z, ZNegate(ss.z))
        /\ Mirrored.ss.p = ss.p
        /\ Mirrored.ss.significant = ss.significant
        /\ ss.hypothesis = "One-sided" => 2 * ss.p <= PUnit

\* A one-sided result in which B is worse than A and is declared significant.
C9_Witness ==
    /\ outcome = "none"
    /\ ValidObs(call)
    /\ ~Degenerate(call)
    /\ ss.hypothesis = "One-sided"
    /\ ss.z.kind = "finite"
    /\ ss.z.sgn < 0
    /\ ss.significant = "YES"

\* C10: in a completed calculation on valid inputs with non-zero pooled
\* variance the z-score has the sign of the difference, and is zero exactly
\* when the two rates are equal.
C10_ZSignIsDiffSign ==
    (outcome = "none" /\ ValidObs(call) /\ ~Degenerate(call)) =>
        /\ ss.z.kind = "finite"
        /\ ss.z.sgn = RatSign(ss.diff)
        /\ (ss.z.sgn = 0) <=> (ss.cra = ss.crb)

\* Equal rates from different counts (1/1 against 2/2 is degenerate, so the
\* rates lie strictly between 0% and 100%), with a zero z-score.
C10_Witness ==
    /\ outcome = "none"
    /\ ValidObs(call)
    /\ ~Degenerate(call)
    /\ ss.cra = ss.crb
    /\ ss.z.sgn = 0
    /\ RatSign(ss.diff) = 0

====
